---- MODULE Spec2Model ----
(***************************************************************************)
(* Model of sparse-hash.py: the chunks() generator (the three sampling     *)
(* modes "chunk", "random", "duty") and the comparison loop that seeks     *)
(* both files to every yielded range, reads it in pieces of at most        *)
(* --max-chunk-size bytes, feeds two running digests and exits at the      *)
(* first digest difference.                                                *)
(*                                                                         *)
(* A digest is modelled as the sequence of bytes fed to it so far (an      *)
(* ideal, collision-free hash): two hexdigests are equal exactly when the  *)
(* two sequences are equal.  Byte positions are 0-based as in the source;  *)
(* TLA+ sequences are 1-based, so byte i of a file is file[i+1].           *)
(*                                                                         *)
(* Not modelled: printing, the --dump-scanned-chunks report, reading from  *)
(* stdin, a --mode other than the three above (chunks() then yields        *)
(* nothing), and files of different or zero size (the script exits or      *)
(* fails before f_size is set).  Python integers are unbounded; the float  *)
(* divisions of the duty mode are exact below 2^53 and modelled as exact.  *)
(***************************************************************************)
EXTENDS Integers, Sequences, FiniteSets

\* ---------------------------------------------------------------- bounds
MaxSize == 4
MaxChunk == 3
MaxRand == 3
MaxDuty == 3
MaxStart == 2

\* --bytes values tried: 0 (invalid) up to one more than the largest file
ByteArgs == 0..(MaxSize + 1)
\* --percent values tried: 0 (invalid), a fraction, the whole, more than all
PercentArgs == {0, 50, 100, 150}

Modes == {"chunk", "random", "duty"}

VARIABLES
    mode,                 \* args.mode
    min_rand_chunk_size,  \* args.min_rand_chunk_size
    max_rand_chunk_size,  \* args.max_rand_chunk_size
    max_chunk_size,       \* args.max_chunk_size
    chunk_start,          \* parse_size(args.chunk_start)
    duty,                 \* parse_size(args.duty_chunk_size)
    file0, file1,         \* contents of the two files
    amount,               \* bytes to scan
    pc,                   \* position of the main program
    gpc,                  \* position of the chunks() generator
    read_chunks,          \* chunks(): list of (start, end) already taken
    bytes_read,           \* chunks(): random mode running total
    rem_bytes,            \* chunks(): duty mode, size of the last window
    size_precise,         \* chunks(): duty mode
    cycles,               \* chunks(): duty mode
    c,                    \* chunks(): duty mode loop counter
    s, chunk,             \* loop variables of the comparison loop
    tot_read, n_chunk,    \* progress counters
    pos0, pos1,           \* file positions of f0 and f1
    dig0, dig1,           \* bytes fed to dig0 and dig1
    result,               \* what the run printed / how it ended
    plan,                 \* history: every (s, chunk) pair yielded by chunks()
    subreads              \* history: sizes requested from (f0, f1) in the current range

vars == <<mode, min_rand_chunk_size, max_rand_chunk_size, max_chunk_size,
          chunk_start, duty, file0, file1, amount, pc, gpc, read_chunks,
          bytes_read, rem_bytes, size_precise, cycles, c, s, chunk, tot_read,
          n_chunk, pos0, pos1, dig0, dig1, result, plan, subreads>>

argvars == <<mode, min_rand_chunk_size, max_rand_chunk_size, max_chunk_size,
             chunk_start, duty, file0, file1>>
dutyvars == <<rem_bytes, size_precise, cycles, c>>
iovars == <<pos0, pos1, dig0, dig1>>

\* ---------------------------------------------------------------- helpers
Min(a, b) == IF a < b THEN a ELSE b

\* The files tried: file0 is all zero bytes, file1 equals file0 or differs
\* from it in exactly one byte.
Zeros(n) == [i \in 1..n |-> 0]

OneByteOff(n) == {[i \in 1..n |-> IF i = p THEN 1 ELSE 0] : p \in 1..n}

\* f_size = sizes[0]; both files have the same size or the run exits
f_size == Len(file0)

\* f.read(n) at position pos: the bytes up to end of file, at most n
FileRead(file, pos, n) == SubSeq(file, pos + 1, Min(pos + n, Len(file)))

\* MIN_RAND_CHUNK_SIZE, clamped to the file size
MIN_RAND_CHUNK_SIZE ==
    IF f_size < min_rand_chunk_size THEN f_size ELSE min_rand_chunk_size

NoResult == [kind |-> "none", lo |-> 0, hi |-> 0, tot |-> 0, pct |-> 0]

\* round(tot/size*100, 2), in hundredths of a percent (no tie occurs for
\* the sizes tried, so the rounding mode at .5 is immaterial)
RoundPct(tot, size) == (2 * 10000 * tot + size) \div (2 * size)

\* ---------------------------------------------------------------- Init
Init ==
    /\ mode \in Modes
    /\ max_chunk_size \in 1..MaxChunk
    /\ \E n \in 1..MaxSize :
          /\ file0 = Zeros(n)
          /\ file1 \in {Zeros(n)} \cup OneByteOff(n)
    /\ chunk_start \in IF mode = "chunk" THEN 0..MaxStart ELSE {0}
    /\ duty \in IF mode = "duty" THEN 1..MaxDuty ELSE {1}
    /\ min_rand_chunk_size \in IF mode = "random" THEN 1..MaxRand ELSE {1}
    /\ max_rand_chunk_size \in IF mode = "random" THEN 1..MaxRand ELSE {1}
    /\ amount = 0
    /\ pc = "args"
    /\ gpc = "start"
    /\ read_chunks = <<>>
    /\ bytes_read = 0
    /\ rem_bytes = 0
    /\ size_precise = 0
    /\ cycles = 0
    /\ c = 0
    /\ s = 0
    /\ chunk = 0
    /\ tot_read = 0
    /\ n_chunk = 0
    /\ pos0 = 0
    /\ pos1 = 0
    /\ dig0 = <<>>
    /\ dig1 = <<>>
    /\ result = NoResult
    /\ plan = <<>>
    /\ subreads = <<>>

\* ---------------------------------------------------------------- budget
ArgError ==
    /\ pc' = "done"
    /\ result' = [NoResult EXCEPT !.kind = "arg_error"]
    /\ amount' = amount

\* --percent given: amount = int(percent * f_size / 100)
ParsePercent ==
    /\ pc = "args"
    /\ \E p \in PercentArgs :
          IF p <= 0
          THEN ArgError
          ELSE /\ amount' = (p * f_size) \div 100
               /\ pc' = "iter"
               /\ result' = result
    /\ UNCHANGED <<argvars, dutyvars, iovars, gpc, read_chunks, bytes_read,
                   s, chunk, tot_read, n_chunk, plan, subreads>>

\* --bytes given: amount = parse_size(bytes)
ParseBytes ==
    /\ pc = "args"
    /\ \E b \in ByteArgs :
          IF b <= 0
          THEN ArgError
          ELSE /\ amount' = b
               /\ pc' = "iter"
               /\ result' = result
    /\ UNCHANGED <<argvars, dutyvars, iovars, gpc, read_chunks, bytes_read,
                   s, chunk, tot_read, n_chunk, plan, subreads>>

\* ---------------------------------------------------------------- chunks()
\* yield s_, len_ : the for loop binds (s, chunk) and enters its body
Yield(s_, len_) ==
    /\ s' = s_
    /\ chunk' = len_
    /\ plan' = Append(plan, <<s_, len_>>)
    /\ pc' = "body"

\* an exception raised inside chunks() ends the run (finally closes the files)
Raise(kind) ==
    /\ pc' = "done"
    /\ gpc' = "raised"
    /\ result' = [NoResult EXCEPT !.kind = kind]
    /\ UNCHANGED <<s, chunk, plan>>

\* the range yielded in mode "chunk"
ChunkRange ==
    IF chunk_start = 0
    THEN <<0, amount>>
    ELSE <<chunk_start, chunk_start + amount>>

ChunkMode ==
    /\ pc = "iter"
    /\ gpc = "start"
    /\ mode = "chunk"
    /\ Yield(ChunkRange[1], ChunkRange[2])
    /\ read_chunks' = IF chunk_start = 0
                      THEN Append(read_chunks, <<0, amount>>)
                      ELSE read_chunks
    /\ gpc' = "end"
    /\ UNCHANGED <<argvars, dutyvars, iovars, amount, bytes_read, tot_read,
                   n_chunk, result, subreads>>

\* the generator falls off its end: the for loop is over
GenReturn ==
    /\ pc = "iter"
    /\ gpc = "end"
    /\ gpc' = "returned"
    /\ pc' = "finish"
    /\ UNCHANGED <<argvars, dutyvars, iovars, amount, read_chunks, bytes_read,
                   s, chunk, tot_read, n_chunk, result, plan, subreads>>

\* ---- mode "random"
\* possible values of s_ = randint(0, size - MIN_RAND_CHUNK_SIZE)
StartDraws == 0..(f_size - MIN_RAND_CHUNK_SIZE)

\* possible values of e_ for a given s_
EndDraws(s_) ==
    IF amount - bytes_read <= max_rand_chunk_size
    THEN IF amount - bytes_read <= MIN_RAND_CHUNK_SIZE
         THEN {s_ + amount - bytes_read}
         ELSE (s_ + MIN_RAND_CHUNK_SIZE)..(s_ + amount - bytes_read)
    ELSE (s_ + MIN_RAND_CHUNK_SIZE)..(s_ + max_rand_chunk_size)

\* the test bug: only the candidate's start is compared
OverlapsStartOnly(s_, e_) ==
    \E k \in 1..Len(read_chunks) :
        s_ >= read_chunks[k][1] /\ s_ < read_chunks[k][2]

\* for s__, e__ in read_chunks: if e_ > s__ and s_ < e__
Overlaps(s_, e_) ==
    \E k \in 1..Len(read_chunks) :
        e_ > read_chunks[k][1] /\ s_ < read_chunks[k][2]

InRandomLoop ==
    /\ pc = "iter"
    /\ mode = "random"
    /\ gpc \in {"start", "loop"}

RandomBreak ==
    /\ InRandomLoop
    /\ amount = bytes_read
    /\ gpc' = "returned"
    /\ pc' = "finish"
    /\ UNCHANGED <<argvars, dutyvars, iovars, amount, read_chunks, bytes_read,
                   s, chunk, tot_read, n_chunk, result, plan, subreads>>

\* randint(a, b) with a > b raises ValueError
RandomValueError ==
    /\ InRandomLoop
    /\ amount # bytes_read
    /\ \E s_ \in StartDraws : EndDraws(s_) = {}
    /\ Raise("ValueError")
    /\ UNCHANGED <<argvars, dutyvars, iovars, amount, read_chunks, bytes_read,
                   tot_read, n_chunk, subreads>>

\* the candidate overlaps a taken chunk: continue
RandomReject ==
    /\ InRandomLoop
    /\ amount # bytes_read
    /\ \E s_ \in StartDraws : \E e_ \in EndDraws(s_) : Overlaps(s_, e_)
    /\ gpc' = "loop"
    /\ UNCHANGED <<argvars, dutyvars, iovars, amount, pc, read_chunks,
                   bytes_read, s, chunk, tot_read, n_chunk, result, plan,
                   subreads>>

RandomAccept ==
    /\ InRandomLoop
    /\ amount # bytes_read
    /\ \E s_ \in StartDraws : \E e_ \in EndDraws(s_) :
          /\ ~Overlaps(s_, e_)
          /\ bytes_read' = bytes_read + (e_ - s_)
          /\ IF e_ < s_
             THEN /\ Raise("RuntimeError")
                  /\ read_chunks' = read_chunks
             ELSE /\ Yield(s_, e_ - s_)
                  /\ read_chunks' = Append(read_chunks, <<s_, e_>>)
                  /\ gpc' = "loop"
                  /\ result' = result
    /\ UNCHANGED <<argvars, dutyvars, iovars, amount, tot_read, n_chunk,
                   subreads>>

\* ---- mode "duty"
\* bytes_precise = bytes_ - bytes_ % duty
BytesPrecise == amount - (amount % duty)

\* rem_size = size % bytes_precise
RemSize == f_size % BytesPrecise

\* lines 197-206: everything computed before the first window; size % 0
\* raises ZeroDivisionError
DutyStart ==
    /\ pc = "iter"
    /\ gpc = "start"
    /\ mode = "duty"
    /\ IF BytesPrecise = 0
       THEN /\ Raise("ZeroDivisionError")
            /\ UNCHANGED dutyvars
       ELSE /\ rem_bytes' = IF RemSize <= amount % duty
                            THEN RemSize
                            ELSE amount % duty
            /\ size_precise' = f_size - RemSize
            /\ cycles' = BytesPrecise \div duty
            /\ c' = 0
            /\ gpc' = "cycle"
            /\ UNCHANGED <<pc, result, s, chunk, plan>>
    /\ UNCHANGED <<argvars, iovars, amount, read_chunks, bytes_read, tot_read,
                   n_chunk, subreads>>

\* s = size_precise / cycles * c, which must be a whole number
DutyOffsetIsInt == (size_precise * c) % cycles = 0

DutyOffset == (size_precise * c) \div cycles

\* one pass of "for c in range(cycles)"
DutyCycle ==
    /\ pc = "iter"
    /\ gpc = "cycle"
    /\ c < cycles
    /\ IF ~DutyOffsetIsInt
       THEN /\ Raise("Exception")
            /\ c' = c
       ELSE /\ Yield(DutyOffset, duty)
            /\ c' = c + 1
            /\ UNCHANGED <<gpc, result>>
    /\ UNCHANGED <<argvars, iovars, amount, read_chunks, bytes_read,
                   rem_bytes, size_precise, cycles, tot_read, n_chunk,
                   subreads>>

\* yield int(size_precise), int(rem_bytes)
DutyLast ==
    /\ pc = "iter"
    /\ gpc = "cycle"
    /\ c >= cycles
    /\ Yield(size_precise, rem_bytes)
    /\ gpc' = "end"
    /\ UNCHANGED <<argvars, dutyvars, iovars, amount, read_chunks, bytes_read,
                   tot_read, n_chunk, result, subreads>>

\* ---------------------------------------------------------------- comparison loop
\* f0.seek(s); f1.seek(s); tot_read += chunk; n_chunk += 1
Seek ==
    /\ pc = "body"
    /\ pos0' = s
    /\ pos1' = s
    /\ tot_read' = tot_read + chunk
    /\ n_chunk' = n_chunk + 1
    /\ subreads' = <<>>
    /\ pc' = "while"
    /\ UNCHANGED <<argvars, dutyvars, amount, gpc, read_chunks, bytes_read,
                   s, chunk, dig0, dig1, result, plan>>

\* read_and_digest(size): read size bytes from each file, update each digest
ReadAndDigest(size) ==
    /\ dig0' = dig0 \o FileRead(file0, pos0, size)
    /\ dig1' = dig1 \o FileRead(file1, pos1, size)
    /\ pos0' = pos0 + Len(FileRead(file0, pos0, size))
    /\ pos1' = pos1 + Len(FileRead(file1, pos1, size))
    /\ subreads' = Append(subreads, <<size, size>>)

\* "Files differ: different digest at interval of {s}-{s + chunk} bytes"; exit(0)
ExitDiffer ==
    /\ result' = [NoResult EXCEPT !.kind = "differ", !.lo = s, !.hi = s + chunk]
    /\ pc' = "done"
    /\ chunk' = chunk

\* the off-by-one bug: a piece of max_chunk_size + 1 bytes is left to the last read
MoreThanMaxPlusOne == chunk > max_chunk_size + 1

\* while chunk > args.max_chunk_size
MoreThanMax == chunk > max_chunk_size

\* body of the while loop
ReadMax ==
    /\ pc = "while"
    /\ MoreThanMax
    /\ ReadAndDigest(max_chunk_size)
    /\ IF dig0' # dig1'
       THEN ExitDiffer
       ELSE /\ chunk' = chunk - max_chunk_size
            /\ UNCHANGED <<pc, result>>
    /\ UNCHANGED <<argvars, dutyvars, amount, gpc, read_chunks, bytes_read,
                   s, tot_read, n_chunk, plan>>

\* read_and_digest(chunk) after the while loop
ReadRest ==
    /\ pc = "while"
    /\ ~MoreThanMax
    /\ ReadAndDigest(chunk)
    /\ IF dig0' # dig1'
       THEN ExitDiffer
       ELSE /\ pc' = "iter"
            /\ UNCHANGED <<chunk, result>>
    /\ UNCHANGED <<argvars, dutyvars, amount, gpc, read_chunks, bytes_read,
                   s, tot_read, n_chunk, plan>>

\* after the for loop: "Files match certainly at ...%"
Finish ==
    /\ pc = "finish"
    /\ pc' = "done"
    /\ result' = IF dig0 = dig1
                 THEN [NoResult EXCEPT !.kind = "match", !.tot = tot_read,
                                       !.pct = RoundPct(tot_read, f_size)]
                 ELSE result
    /\ UNCHANGED <<argvars, dutyvars, iovars, amount, gpc, read_chunks,
                   bytes_read, s, chunk, tot_read, n_chunk, plan, subreads>>

Next ==
    \/ ParsePercent
    \/ ParseBytes
    \/ ChunkMode
    \/ GenReturn
    \/ RandomBreak
    \/ RandomValueError
    \/ RandomReject
    \/ RandomAccept
    \/ DutyStart
    \/ DutyCycle
    \/ DutyLast
    \/ Seek
    \/ ReadMax
    \/ ReadRest
    \/ Finish

Spec == Init /\ [][Next]_vars

\* ================================================================ properties
RECURSIVE SumLengths(_)
\* sum of the lengths of a sequence of (offset, length) pairs
SumLengths(q) == IF q = <<>> THEN 0 ELSE q[1][2] + SumLengths(Tail(q))

RECURSIVE SumRequests(_)
\* sum of the sizes requested from f0 over a sequence of sub-reads
SumRequests(q) == IF q = <<>> THEN 0 ELSE q[1][1] + SumRequests(Tail(q))

\* the range the comparison loop is working on
CurrentRange == plan[Len(plan)]

BudgetParsed == pc # "args" /\ result.kind # "arg_error"

\* 0 < budget <= streamLength, and for the random mode min <= max chunk size
ValidBudget ==
    /\ BudgetParsed
    /\ 0 < amount
    /\ amount <= f_size
    /\ MIN_RAND_CHUNK_SIZE <= max_rand_chunk_size

\* chunks() is over: it returned or it raised
GeneratorOver == gpc \in {"returned", "raised"}

\* file1 differs from file0 in exactly this one (0-based) position
DiffPositions == {p \in 0..(f_size - 1) : file0[p + 1] # file1[p + 1]}

\* every candidate the random mode can draw overlaps a taken chunk
AllDrawsOverlap ==
    \A s_ \in StartDraws : \A e_ \in EndDraws(s_) : Overlaps(s_, e_)

\* C1: Exact budget. For a valid budget, whenever chunks() is over it has
\* returned normally and the lengths of the yielded ranges sum to the budget.
C1_ExactBudget ==
    (ValidBudget /\ GeneratorOver)
        => (gpc = "returned" /\ SumLengths(plan) = amount)

\* C2: No overlap. In mode "random", at every point of the run, any two
\* distinct yielded ranges are disjoint as half-open intervals
\* [offset, offset + length).
C2_NoOverlap ==
    mode = "random" =>
        \A i, j \in 1..Len(plan) :
            i # j => \/ plan[i][1] + plan[i][2] <= plan[j][1]
                     \/ plan[j][1] + plan[j][2] <= plan[i][1]

\* reached: three ranges were yielded, and some candidate of the next draw
\* overlaps one of them (so the rejection test is in play)
C2_Witness ==
    /\ mode = "random"
    /\ Len(plan) >= 3
    /\ InRandomLoop
    /\ amount # bytes_read
    /\ \E s_ \in StartDraws : \E e_ \in EndDraws(s_) : Overlaps(s_, e_)

\* C3: In-bounds ranges. In modes "random" and "duty" with budget <= file
\* size, every yielded range has offset >= 0 and offset + length <= file size.
C3_InBounds ==
    (mode \in {"random", "duty"} /\ BudgetParsed /\ amount <= f_size) =>
        \A i \in 1..Len(plan) :
            plan[i][1] >= 0 /\ plan[i][1] + plan[i][2] <= f_size

\* C4: Early termination. If the files differ in exactly one byte P and the
\* run exits on a digest difference while P lies inside the current range,
\* the reported interval is (offset, offset + original length), it contains
\* P, and less than one max_chunk_size piece was read past P.
C4_EarlyTermination ==
    \A p \in DiffPositions :
        (/\ result.kind = "differ"
         /\ CurrentRange[1] <= p
         /\ p < CurrentRange[1] + CurrentRange[2])
        => /\ result.lo = CurrentRange[1]
           /\ result.hi = CurrentRange[1] + CurrentRange[2]
           /\ result.lo <= p
           /\ p < result.hi
           /\ pos0 <= p + max_chunk_size

\* C5: Truncated reads are never treated as equality. A match is reported
\* only if every byte counted as examined was read from both files and
\* digested.
C5_NoTruncatedMatch ==
    result.kind = "match" =>
        /\ Len(dig0) = result.tot
        /\ Len(dig1) = result.tot

\* C6: Bounded random planning. With budget <= file size the random mode
\* never reaches a point where budget remains and every candidate it can
\* draw overlaps a taken chunk (from there the retry loop cannot end).
C6_NeverStuck ==
    ~(/\ InRandomLoop
      /\ BudgetParsed
      /\ amount <= f_size
      /\ amount # bytes_read
      /\ \E s_ \in StartDraws : EndDraws(s_) # {}
      /\ AllDrawsOverlap)

\* the last read_and_digest(chunk) of the current range returned
RangeDone ==
    /\ n_chunk > 0
    /\ pc \in {"iter", "finish"} \/ result.kind = "match"

\* C7: Chunk ceiling. Every sub-read asks both files for the same number of
\* bytes, at most max_chunk_size; the sub-reads of a range never ask for more
\* than its length, and once the range is done they sum to its length.
C7_ChunkCeiling ==
    /\ \A k \in 1..Len(subreads) :
          /\ subreads[k][1] <= max_chunk_size
          /\ subreads[k][2] = subreads[k][1]
    /\ (pc = "while" \/ result.kind = "differ")
          => SumRequests(subreads) <= CurrentRange[2]
    /\ RangeDone => SumRequests(subreads) = CurrentRange[2]

\* reached: a range longer than max_chunk_size was read to its end in
\* three sub-reads
C7_Witness ==
    /\ pc = "iter"
    /\ Len(subreads) >= 3
    /\ CurrentRange[2] > max_chunk_size
    /\ SumRequests(subreads) = CurrentRange[2]

\* C8: Single-window plan. In mode "chunk" with budget > 0 the one range
\* yielded is (start offset, budget); a match then examined exactly budget
\* bytes, and 100% when budget = file size and start = 0.
C8_SingleWindow ==
    (mode = "chunk" /\ BudgetParsed /\ amount > 0) =>
        /\ Len(plan) <= 1
        /\ pc \notin {"iter", "args"} => plan = << <<chunk_start, amount>> >>
        /\ result.kind = "match" =>
              /\ result.tot = amount
              /\ (amount = f_size /\ chunk_start = 0) => result.pct = 10000

\* C9: Over-budget rejection. When the budget is greater than the file size,
\* no range is yielded, no seek or read is issued and no match or mismatch
\* is reported.
C9_OverBudgetRejected ==
    (BudgetParsed /\ amount > f_size) =>
        /\ plan = <<>>
        /\ n_chunk = 0
        /\ subreads = <<>>
        /\ result.kind \notin {"match", "differ"}

\* C10: Well-formed periodic windows. In mode "duty" with 0 < budget <= file
\* size every yielded range has a positive length and an offset strictly
\* below the file size.
C10_WellFormedDuty ==
    (mode = "duty" /\ BudgetParsed /\ 0 < amount /\ amount <= f_size) =>
        \A i \in 1..Len(plan) :
            plan[i][2] > 0 /\ plan[i][1] < f_size

====
